---- MODULE Spec2Model ----
(***************************************************************************)
(* Article-extractor (src/app.py): extract_article, create_excel_download  *)
(* and the batch tab's "Process All URLs" handler.                         *)
(*                                                                         *)
(* Python values are tagged: PyStr(s), s a sequence of one-character      *)
(* strings, PyInt(n), None, and NaN (the cell pandas puts where a row has  *)
(* no value for a column).  A dict is the sequence of its <<key, value>>   *)
(* items in insertion order.  A parsed HTML document is the sequence of    *)
(* its elements in document order; each element has its tag, its classes,  *)
(* the index of its parent (0: the document itself) and the text node that *)
(* precedes its children (<<>>: none).                                     *)
(***************************************************************************)
EXTENDS Integers, Sequences, FiniteSets, TLC

VARIABLES
    pc,          \* where the run is
    batch_urls,  \* the text area of the batch tab
    urls,        \* the URLs of the run
    i,           \* URLs processed so far
    results,     \* the records
    requests,    \* the URLs a GET was issued for, in order
    served,      \* the response to each of them
    clock,       \* the current second
    error,       \* the exception that ended the run, "" for none
    summary,     \* the tally of line 230-231
    data,        \* the argument of create_excel_download
    excel        \* the workbook it returns

vars == <<pc, batch_urls, urls, i, results, requests, served, clock, error, summary, data, excel>>

(***************************************************************************)
(* Bounds of the model.                                                    *)
(***************************************************************************)
MaxUrls == 3
MaxNodes == 3
MaxRows == 2
MaxClock == 1

\* line 202
BatchLimit == 20
\* line 119
MaxWidth == 50
WidthPadding == 2

(***************************************************************************)
(* Python values.                                                          *)
(***************************************************************************)
PyStr(s) == [t |-> "str", v |-> s]
PyInt(n) == [t |-> "int", v |-> n]
None == [t |-> "None", v |-> 0]
NaN == [t |-> "nan", v |-> 0]

IsStr(x) == x.t = "str"

Min(a, b) == IF a <= b THEN a ELSE b
Max(a, b) == IF a >= b THEN a ELSE b

Rep(c, n) == [k \in 1..n |-> c]

(***************************************************************************)
(* String literals of the source.                                          *)
(***************************************************************************)
S_http == <<"h","t","t","p",":","/","/">>
S_https == <<"h","t","t","p","s",":","/","/">>
S_NoTitle == <<"N","o"," ","t","i","t","l","e"," ","f","o","u","n","d">>
S_unknown == <<"u","n","k","n","o","w","n">>
S_success == <<"s","u","c","c","e","s","s">>
S_Error == <<"E","r","r","o","r">>
S_error == <<"e","r","r","o","r">>
S_failed == <<"f","a","i","l","e","d",":"," ">>
S_InvalidURL == <<"I","n","v","a","l","i","d"," ","U","R","L">>
S_MissingScheme == <<"f","a","i","l","e","d",":"," ","M","i","s","s","i","n","g"," ","h","t","t","p",":","/","/"," ","o","r"," ","h","t","t","p","s",":","/","/">>
S_dots == <<".",".",".">>
S_stamp == <<"2","0","2","4","-","0","1","-","0","1"," ","0","0",":","0","0",":","0">>

SchemePrefixes == <<S_http, S_https>>

(***************************************************************************)
(* str methods.                                                            *)
(***************************************************************************)
IsPrefix(p, s) == Len(p) <= Len(s) /\ SubSeq(s, 1, Len(p)) = p

\* s.startswith((p1, p2, ...))
startswith(s, prefixes) == \E k \in 1..Len(prefixes) : IsPrefix(prefixes[k], s)

\* s[:n]
Slice(s, n) == SubSeq(s, 1, Min(n, Len(s)))

\* s.split(sep) for a one-character sep: empty segments are kept
RECURSIVE split(_, _)
split(s, sep) ==
    IF \A k \in 1..Len(s) : s[k] # sep
    THEN <<s>>
    ELSE LET p == CHOOSE k \in 1..Len(s) : s[k] = sep /\ \A j \in 1..(k-1) : s[j] # sep
         IN  <<SubSeq(s, 1, p - 1)>> \o split(SubSeq(s, p + 1, Len(s)), sep)

Whitespace == {" ", "\n"}

\* s.strip()
RECURSIVE lstrip(_)
lstrip(s) == IF s # <<>> /\ Head(s) \in Whitespace THEN lstrip(Tail(s)) ELSE s

RECURSIVE rstrip(_)
rstrip(s) ==
    IF s # <<>> /\ s[Len(s)] \in Whitespace THEN rstrip(SubSeq(s, 1, Len(s) - 1)) ELSE s

strip(s) == rstrip(lstrip(s))

\* s.splitlines(): as split on the newline, without a last empty line
splitlines(s) ==
    LET parts == split(s, "\n")
    IN  IF parts[Len(parts)] = <<>> THEN SubSeq(parts, 1, Len(parts) - 1) ELSE parts

\* sep.join(parts)
RECURSIVE join(_, _)
join(sep, parts) ==
    IF parts = <<>> THEN <<>>
    ELSE IF Len(parts) = 1 THEN parts[1]
    ELSE parts[1] \o sep \o join(sep, Tail(parts))

\* [f(x) for x in xs if keep(x)] with f = strip and keep = non-empty after strip
RECURSIVE StrippedNonEmpty(_)
StrippedNonEmpty(xs) ==
    IF xs = <<>> THEN <<>>
    ELSE (IF strip(Head(xs)) # <<>> THEN <<strip(Head(xs))>> ELSE <<>>)
         \o StrippedNonEmpty(Tail(xs))

\* len(s.split()): the whitespace-delimited tokens of s
RECURSIVE CountTokens(_, _)
CountTokens(s, inToken) ==
    IF s = <<>> THEN 0
    ELSE IF Head(s) \in Whitespace THEN CountTokens(Tail(s), FALSE)
    ELSE (IF inToken THEN 0 ELSE 1) + CountTokens(Tail(s), TRUE)

word_count(s) == CountTokens(s, FALSE)

(***************************************************************************)
(* dict: the sequence of its items.                                        *)
(***************************************************************************)
HasKey(d, k) == \E n \in 1..Len(d) : d[n][1] = k

Get(d, k) == d[CHOOSE n \in 1..Len(d) : d[n][1] = k][2]

Keys(d) == [n \in 1..Len(d) |-> d[n][1]]

(***************************************************************************)
(* The parsed document (BeautifulSoup).                                    *)
(***************************************************************************)
Node(tag, cls, parent, text) == [tag |-> tag, cls |-> cls, parent |-> parent, text |-> text]

RECURSIVE IsAncestor(_, _, _)
IsAncestor(doc, a, n) ==
    /\ doc[n].parent # 0
    /\ (doc[n].parent = a \/ IsAncestor(doc, a, doc[n].parent))

InSubtree(doc, root, n) == root = 0 \/ n = root \/ IsAncestor(doc, root, n)

Excluded == {"script", "style", "nav", "footer", "header", "aside", "advertisement"}

\* for element in soup([...]): element.decompose()
\* the elements left: those that are not excluded and have no excluded ancestor
decompose(doc) ==
    {n \in 1..Len(doc) :
        /\ doc[n].tag \notin Excluded
        /\ \A a \in 1..Len(doc) : IsAncestor(doc, a, n) => doc[a].tag \notin Excluded}

MinOf(S) == CHOOSE n \in S : \A m \in S : n <= m

\* soup.find(name) and soup.find(name, class_=c): the first match in document
\* order, 0 for Python's None; class_ = "" stands for no class filter
find(doc, alive, name, class_) ==
    LET m == {n \in alive : doc[n].tag = name /\ (class_ = "" \/ class_ \in doc[n].cls)}
    IN  IF m = {} THEN 0 ELSE MinOf(m)

\* the stripped, non-empty text nodes of the subtree of root, in document order
RECURSIVE TextNodes(_, _, _, _)
TextNodes(doc, alive, root, k) ==
    IF k > Len(doc) THEN <<>>
    ELSE (IF k \in alive /\ InSubtree(doc, root, k) /\ strip(doc[k].text) # <<>>
          THEN <<strip(doc[k].text)>> ELSE <<>>)
         \o TextNodes(doc, alive, root, k + 1)

\* tag.get_text(separator=sep, strip=True); root = 0 is the soup itself
get_text(doc, alive, root, sep) == join(sep, TextNodes(doc, alive, root, 1))

\* tag.string: the only child when it is a text node, the .string of the only
\* child when it is an element, None otherwise
RECURSIVE string(_, _, _)
string(doc, alive, n) ==
    LET kids == {c \in alive : doc[c].parent = n}
    IN  IF doc[n].text # <<>> /\ kids = {} THEN PyStr(doc[n].text)
        ELSE IF doc[n].text = <<>> /\ Cardinality(kids) = 1
             THEN string(doc, alive, CHOOSE c \in kids : TRUE)
        ELSE None

\* lines 60-65
title_of(doc, alive) ==
    IF find(doc, alive, "title", "") # 0
    THEN string(doc, alive, find(doc, alive, "title", ""))
    ELSE IF find(doc, alive, "h1", "") # 0
         THEN PyStr(get_text(doc, alive, find(doc, alive, "h1", ""), <<>>))
    ELSE PyStr(S_NoTitle)

\* faulty variant: main is tried before article
article_body_MainFirst(doc, alive) ==
    IF find(doc, alive, "main", "") # 0 THEN find(doc, alive, "main", "")
    ELSE IF find(doc, alive, "article", "") # 0 THEN find(doc, alive, "article", "")
    ELSE IF find(doc, alive, "div", "content") # 0 THEN find(doc, alive, "div", "content")
    ELSE find(doc, alive, "div", "post")

\* line 68: the or-chain; 0 when every find gives None
article_body(doc, alive) ==
    IF find(doc, alive, "article", "") # 0 THEN find(doc, alive, "article", "")
    ELSE IF find(doc, alive, "main", "") # 0 THEN find(doc, alive, "main", "")
    ELSE IF find(doc, alive, "div", "content") # 0 THEN find(doc, alive, "div", "content")
    ELSE find(doc, alive, "div", "post")

\* lines 70-74: with article_body = 0 the text is the soup's
region_text(doc, alive) == get_text(doc, alive, article_body(doc, alive), <<"\n">>)

\* lines 77-78
clean_text(text) == join(<<"\n">>, StrippedNonEmpty(splitlines(text)))

\* faulty variant: one segment more is asked for
domain_of_OffByOne(url) ==
    IF Len(split(url, "/")) > 3 THEN split(url, "/")[3] ELSE S_unknown

\* line 81
domain_of(url) ==
    IF Len(split(url, "/")) > 2 THEN split(url, "/")[3] ELSE S_unknown

Digit(n) == <<"0", "1", "2", "3", "4", "5", "6", "7", "8", "9">>[n + 1]

\* datetime.now().strftime("%Y-%m-%d %H:%M:%S") at second t of the run
strftime(t) == S_stamp \o <<Digit(t)>>

\* lines 83-91
SuccessRecord(url, doc, t) ==
    LET alive == decompose(doc)
        text == clean_text(region_text(doc, alive))
    IN  << <<"title", title_of(doc, alive)>>,
           <<"url", PyStr(url)>>,
           <<"domain", PyStr(domain_of(url))>>,
           <<"text", PyStr(text)>>,
           <<"word_count", PyInt(word_count(text))>>,
           <<"date_extracted", PyStr(strftime(t))>>,
           <<"status", PyStr(S_success)>> >>

\* faulty variant: the word count of the error text instead of 0
FailureRecord_Counted(url, d, t) ==
    << <<"title", PyStr(S_Error)>>,
       <<"url", PyStr(url)>>,
       <<"domain", PyStr(S_error)>>,
       <<"text", PyStr(d)>>,
       <<"word_count", PyInt(word_count(d))>>,
       <<"date_extracted", PyStr(strftime(t))>>,
       <<"status", PyStr(S_failed \o d)>> >>

\* lines 93-102: d is str(e)
FailureRecord(url, d, t) ==
    << <<"title", PyStr(S_Error)>>,
       <<"url", PyStr(url)>>,
       <<"domain", PyStr(S_error)>>,
       <<"text", PyStr(d)>>,
       <<"word_count", PyInt(0)>>,
       <<"date_extracted", PyStr(strftime(t))>>,
       <<"status", PyStr(S_failed \o d)>> >>

\* A response of the web to the GET: the parsed body, or the exception that
\* requests.get / raise_for_status raises, with its str()
OkResponse(doc) == [kind |-> "ok", doc |-> doc, desc |-> <<>>]
ErrResponse(d) == [kind |-> "error", doc |-> <<>>, desc |-> d]

\* lines 43-102
extract_article(url, resp, t) ==
    IF resp.kind = "error"
    THEN FailureRecord(url, resp.desc, t)
    ELSE SuccessRecord(url, resp.doc, t)

\* lines 213-218
MissingSchemeRecord(url) ==
    << <<"url", PyStr(url)>>,
       <<"title", PyStr(S_InvalidURL)>>,
       <<"status", PyStr(S_MissingScheme)>>,
       <<"text", PyStr(<<>>)>> >>

(***************************************************************************)
(* create_excel_download: pandas.DataFrame and the sheet written from it.  *)
(***************************************************************************)
PyFloat(n) == [t |-> "float", v |-> n]

SeqContains(xs, x) == \E n \in 1..Len(xs) : xs[n] = x

\* the keys of the dicts in the order they are first seen
RECURSIVE MergeKeys(_, _)
MergeKeys(cols, keys) ==
    IF keys = <<>> THEN cols
    ELSE MergeKeys(IF SeqContains(cols, Head(keys)) THEN cols ELSE Append(cols, Head(keys)),
                   Tail(keys))

RECURSIVE DataFrameColumns(_)
DataFrameColumns(rows) ==
    IF rows = <<>> THEN <<>>
    ELSE MergeKeys(DataFrameColumns(SubSeq(rows, 1, Len(rows) - 1)), Keys(rows[Len(rows)]))

\* a column of the frame: NaN where the row has no such key; a column of
\* integers with a NaN in it is a column of floats
DataFrameColumn(rows, col) ==
    LET raw == [r \in 1..Len(rows) |-> IF HasKey(rows[r], col) THEN Get(rows[r], col) ELSE NaN]
        floats == (\E r \in 1..Len(rows) : raw[r].t = "nan")
                  /\ (\A r \in 1..Len(rows) : raw[r].t \in {"nan", "int"})
    IN  [r \in 1..Len(rows) |->
            IF floats /\ raw[r].t = "int" THEN PyFloat(raw[r].v) ELSE raw[r]]

RECURSIVE Digits(_)
Digits(n) == IF n < 10 THEN 1 ELSE 1 + Digits(n \div 10)

\* len(str(x))
StrLen(x) ==
    CASE x.t = "str" -> Len(x.v)
      [] x.t = "int" -> Digits(x.v)
      [] x.t = "float" -> Digits(x.v) + 2
      [] x.t = "None" -> 4
      [] x.t = "nan" -> 3

RECURSIVE MaxOfSeq(_)
MaxOfSeq(xs) == IF Len(xs) = 1 THEN xs[1] ELSE Max(xs[1], MaxOfSeq(Tail(xs)))

\* line 118
max_length(column, col) ==
    Max(MaxOfSeq([r \in 1..Len(column) |-> StrLen(column[r])]), Len(col)) + WidthPadding

\* faulty variant: no cap
column_width_NoCap(column, col) == max_length(column, col)

\* line 119
column_width(column, col) == Min(max_length(column, col), MaxWidth)

\* lines 104-121; d.is_list is isinstance(data, list)
create_excel_download(d) ==
    LET rows == IF d.is_list THEN d.value ELSE <<d.value>>
        cols == DataFrameColumns(rows)
    IN  [sheet |-> "Extracted Content",
         header |-> cols,
         rows |-> [r \in 1..Len(rows) |->
                     [c \in 1..Len(cols) |-> DataFrameColumn(rows, cols[c])[r]]],
         widths |-> [c \in 1..Len(cols) |-> column_width(DataFrameColumn(rows, cols[c]), cols[c])]]

NoWorkbook == [sheet |-> "", header |-> <<>>, rows |-> <<>>, widths |-> <<>>]
NoData == [is_list |-> TRUE, value |-> <<>>]
NoSummary == [successful |-> 0, failed |-> 0, table |-> <<>>]

(***************************************************************************)
(* The environment: URLs, documents and responses.                         *)
(***************************************************************************)
U_ExamplePath == <<"h","t","t","p","s",":","/","/","w","w","w",".","e","x","a","m","p","l","e",".","c","o","m","/","p","a","t","h">>
U_Example == <<"h","t","t","p","s",":","/","/","e","x","a","m","p","l","e",".","c","o","m">>
U_HttpA == <<"h","t","t","p",":","/","/","a">>
U_HttpsAB == <<"h","t","t","p","s",":","/","/","a","/","b">>
U_Bare == <<"a",".","c","o","/","b">>
U_Ftp == <<"f","t","p",":","/","/","a">>

D_timeout == <<"R","e","a","d"," ","t","i","m","e","d"," ","o","u","t">>
D_404 == <<"4","0","4"," ","C","l","i","e","n","t"," ","E","r","r","o","r">>

T_a == <<"A","l","p","h","a">>
T_b == <<" ","b","e","t","a"," ","g","a","m","m","a"," ">>
T_c == <<"d","e","l","t","a","\n","\n"," ","e","p","s">>
T_d == <<"z","e","t","a">>

\* the text node of the k-th element
TextOf(k) == IF k = 1 THEN T_a ELSE IF k = 2 THEN T_b ELSE IF k = 3 THEN T_c ELSE T_d

NodeKinds ==
    { <<"title", {}, TRUE>>, <<"title", {}, FALSE>>, <<"h1", {}, TRUE>>,
      <<"article", {}, TRUE>>, <<"main", {}, TRUE>>,
      <<"div", {"content"}, TRUE>>, <<"div", {"post"}, TRUE>>,
      <<"section", {"content"}, TRUE>>, <<"p", {}, TRUE>>, <<"nav", {}, TRUE>> }

\* a document of n elements, each a child of the document or of the element
\* before it
MakeDoc(n, kinds, nested) ==
    [k \in 1..n |-> Node(kinds[k][1], kinds[k][2],
                         IF k > 1 /\ nested[k] THEN k - 1 ELSE 0,
                         IF kinds[k][3] THEN TextOf(k) ELSE <<>>)]

DocTitled == << Node("title", {}, 0, T_a), Node("article", {}, 0, T_b) >>
DocEmptyTitle == << Node("title", {}, 0, <<>>), Node("h1", {}, 0, T_b) >>
DocLong(n) == << Node("p", {}, 0, Rep("x", n)) >>

ExtractUrls == {U_ExamplePath, U_Example, U_HttpA}
ErrorDescriptions == {D_timeout, D_404}

BatchLines == {U_HttpsAB, U_HttpA, U_Bare, U_Ftp, <<" ">>}
BatchResponses == {ErrResponse(D_timeout), OkResponse(DocTitled), OkResponse(DocEmptyTitle)}

(***************************************************************************)
(* The batch tab: "Process All URLs" (lines 197-254).                      *)
(***************************************************************************)
SeqsUpTo(S, n) == UNION {[1..k -> S] : k \in 0..n}

BatchTexts ==
    {join(<<"\n">>, lines) : lines \in SeqsUpTo(BatchLines, MaxUrls)}
    \cup {join(<<"\n">>, Rep(U_Bare, BatchLimit)), join(<<"\n">>, Rep(U_Bare, BatchLimit + 1))}

Init ==
    /\ pc = "idle"
    /\ batch_urls \in BatchTexts
    /\ urls = <<>>
    /\ i = 0
    /\ results = <<>>
    /\ requests = <<>>
    /\ served = <<>>
    /\ clock = 0
    /\ error = ""
    /\ summary = NoSummary
    /\ data = NoData
    /\ excel = NoWorkbook

\* line 198
parse_urls(text) == StrippedNonEmpty(split(text, "\n"))

\* lines 197-207: the button, the two warnings, the start of the loop
ProcessClick ==
    /\ pc = "idle"
    /\ urls' = parse_urls(batch_urls)
    /\ pc' = IF urls' = <<>> THEN "warned_empty"
             ELSE IF Len(urls') > BatchLimit THEN "warned_limit"
             ELSE "loop"
    /\ UNCHANGED <<batch_urls, i, results, requests, served, clock, error, summary, data, excel>>

\* faulty variant: results.insert(0, r)
AppendResult_Prepend(rs, r) == <<r>> \o rs

\* results.append(r)
AppendResult(rs, r) == Append(rs, r)

\* faulty variant: the GET is issued before the scheme is checked
IssueRequest_Always(reqs, url, valid) == Append(reqs, url)

\* the requests issued once url is processed with scheme check `valid`
IssueRequest(reqs, url, valid) == IF valid THEN Append(reqs, url) ELSE reqs

\* lines 209-224: one iteration; the GET takes the clock to some later second
LoopStep ==
    /\ pc = "loop"
    /\ i < Len(urls)
    /\ LET url == urls[i + 1]
           valid == startswith(url, SchemePrefixes)
       IN  /\ requests' = IssueRequest(requests, url, valid)
           /\ IF ~valid
              THEN /\ results' = AppendResult(results, MissingSchemeRecord(url))
                   /\ UNCHANGED <<served, clock>>
              ELSE \E resp \in BatchResponses, t \in clock..Min(clock + 1, MaxClock) :
                       /\ results' = AppendResult(results, extract_article(url, resp, t))
                       /\ served' = Append(served, resp)
                       /\ clock' = t
    /\ i' = i + 1
    /\ UNCHANGED <<pc, batch_urls, urls, error, summary, data, excel>>

\* lines 240-243: the exception the summary row of record r raises, "" for none
SummaryRowError(r) ==
    IF Get(r, "title").t = "None" THEN "TypeError"
    ELSE IF ~HasKey(r, "word_count") THEN "KeyError"
    ELSE ""

\* the exception of the first row that raises one
SummaryError(rs) ==
    IF \A k \in 1..Len(rs) : SummaryRowError(rs[k]) = "" THEN ""
    ELSE SummaryRowError(rs[MinOf({k \in 1..Len(rs) : SummaryRowError(rs[k]) # ""})])

\* lines 240-243 when no row raises
summary_df(rs) ==
    [k \in 1..Len(rs) |->
        << <<"URL", PyStr(Slice(Get(rs[k], "url").v, 50) \o S_dots)>>,
           <<"Title", PyStr(Slice(Get(rs[k], "title").v, 40))>>,
           <<"Status", Get(rs[k], "status")>>,
           <<"Words", Get(rs[k], "word_count")>> >>]

\* line 230
Successful(rs) == Cardinality({k \in 1..Len(rs) : Get(rs[k], "status") = PyStr(S_success)})

\* lines 226-244: the loop is over; the tally and the results table
Summary ==
    /\ pc = "loop"
    /\ i = Len(urls)
    /\ error' = SummaryError(results)
    /\ summary' = [successful |-> Successful(results),
                   failed |-> Len(results) - Successful(results),
                   table |-> IF error' = "" THEN summary_df(results) ELSE <<>>]
    /\ pc' = IF error' = "" THEN "export" ELSE "crashed"
    /\ UNCHANGED <<batch_urls, urls, i, results, requests, served, clock, data, excel>>

\* lines 247-254
Export ==
    /\ pc = "export"
    /\ data' = [is_list |-> TRUE, value |-> results]
    /\ excel' = create_excel_download(data')
    /\ pc' = "done"
    /\ UNCHANGED <<batch_urls, urls, i, results, requests, served, clock, error, summary>>

Next == ProcessClick \/ LoopStep \/ Summary \/ Export

Spec == Init /\ [][Next]_vars

(***************************************************************************)
(* extract_article called on a URL that passed the scheme check.           *)
(***************************************************************************)
ExtractInit ==
    /\ pc = "call"
    /\ batch_urls = <<>>
    /\ urls \in {<<u>> : u \in ExtractUrls}
    /\ i = 0
    /\ results = <<>>
    /\ requests = <<>>
    /\ served = <<>>
    /\ clock = 0
    /\ error = ""
    /\ summary = NoSummary
    /\ data = NoData
    /\ excel = NoWorkbook

\* the call returns, the GET having been answered by resp
ExtractReturns(resp) ==
    /\ results' = <<extract_article(urls[1], resp, clock)>>
    /\ served' = <<resp>>
    /\ requests' = <<urls[1]>>
    /\ i' = 1
    /\ pc' = "returned"
    /\ UNCHANGED <<batch_urls, urls, clock, error, summary, data, excel>>

ExtractCall ==
    /\ pc = "call"
    /\ \/ \E d \in ErrorDescriptions : ExtractReturns(ErrResponse(d))
       \/ \E n \in 1..MaxNodes :
             \E kinds \in [1..n -> NodeKinds], nested \in [2..n -> BOOLEAN] :
                ExtractReturns(OkResponse(MakeDoc(n, kinds, nested)))

ExtractSpec == ExtractInit /\ [][ExtractCall]_vars

(***************************************************************************)
(* create_excel_download called on records of the pipeline.                *)
(***************************************************************************)
ExportLengths == {0, 45, 46, 47, 48, 49, 50, 51}

ExportRecords ==
    {extract_article(U_HttpA, OkResponse(DocLong(n)), 0) : n \in ExportLengths}
    \cup {extract_article(U_HttpsAB, resp, 1) : resp \in BatchResponses}
    \cup {MissingSchemeRecord(U_Bare), MissingSchemeRecord(Rep("u", MaxWidth))}

ExportInit ==
    /\ pc = "call"
    /\ batch_urls = <<>>
    /\ urls = <<>>
    /\ i = 0
    /\ results \in SeqsUpTo(ExportRecords, MaxRows) \ {<<>>}
    /\ requests = <<>>
    /\ served = <<>>
    /\ clock = 0
    /\ error = ""
    /\ summary = NoSummary
    /\ data \in {[is_list |-> TRUE, value |-> results]}
               \cup (IF Len(results) = 1 THEN {[is_list |-> FALSE, value |-> results[1]]} ELSE {})
    /\ excel = NoWorkbook

ExportCall ==
    /\ pc = "call"
    /\ excel' = create_excel_download(data)
    /\ pc' = "returned"
    /\ UNCHANGED <<batch_urls, urls, i, results, requests, served, clock, error, summary, data>>

ExportSpec == ExportInit /\ [][ExportCall]_vars

(***************************************************************************)
(* The properties.                                                         *)
(***************************************************************************)
IsSuccess(r) == Get(r, "status") = PyStr(S_success)

PastLoop == pc \in {"export", "done", "crashed"}

NoScheme(u) == ~(IsPrefix(S_http, u) \/ IsPrefix(S_https, u))

\* C1: in a batch run the k-th record carries the url of the k-th input URL at
\* every step of the loop, and once the loop is over there is exactly one
\* record per input URL, in input order.
C1_OrderPreserved ==
    /\ Len(results) = i
    /\ i <= Len(urls)
    /\ \A k \in 1..Len(results) : Get(results[k], "url") = PyStr(urls[k])
    /\ PastLoop => Len(results) = Len(urls)

\* C1 witness: three URLs, the second failed and the others extracted.
C1_Witness ==
    /\ PastLoop
    /\ Len(urls) = 3
    /\ IsSuccess(results[1])
    /\ ~IsSuccess(results[2])
    /\ IsSuccess(results[3])

\* C2: a batch run over 1 to 20 URLs always completes: no error escapes and
\* the run gets past the summary to the export, whichever URLs succeed, fail
\* to fetch or lack the scheme.
C2_BatchCompletes ==
    /\ error = ""
    /\ pc # "crashed"

\* C3: a URL without http:// or https:// is never requested from the network
\* and its record has the title "Invalid URL" and the fixed status.
C3_NoFetchWithoutScheme ==
    /\ \A k \in 1..Len(results) :
          NoScheme(urls[k]) =>
              /\ ~SeqContains(requests, urls[k])
              /\ Get(results[k], "title") = PyStr(S_InvalidURL)
              /\ Get(results[k], "status") = PyStr(S_MissingScheme)
    /\ Len(requests) = Cardinality({k \in 1..i : ~NoScheme(urls[k])})

\* C3 witness: a run that recorded a URL without scheme and fetched another.
C3_Witness ==
    /\ \E k \in 1..Len(results) : NoScheme(urls[k])
    /\ \E k \in 1..Len(results) : ~NoScheme(urls[k])
    /\ requests # <<>>

\* C4: extract_article raises nothing; when the fetch fails with description
\* d the record is url, "Error", "error", d, 0 and "failed: " + d.
C4_FailureRecord ==
    pc = "returned" =>
        /\ error = ""
        /\ Len(results) = 1
        /\ served[1].kind = "error" =>
              LET d == served[1].desc
                  r == results[1]
              IN  /\ Get(r, "url") = PyStr(urls[1])
                  /\ Get(r, "title") = PyStr(S_Error)
                  /\ Get(r, "domain") = PyStr(S_error)
                  /\ Get(r, "text") = PyStr(d)
                  /\ Get(r, "word_count") = PyInt(0)
                  /\ Get(r, "status") = PyStr(S_failed \o d)

\* C4 witness: a call whose fetch failed with more than one word of description.
C4_Witness ==
    /\ pc = "returned"
    /\ served[1].kind = "error"
    /\ word_count(served[1].desc) > 1

RecordFields == <<"title", "url", "domain", "text", "word_count", "date_extracted", "status">>

\* C5: every record in the results has the seven fields, and every record
\* that is not a success has word_count = 0.
C5_SevenFields ==
    \A k \in 1..Len(results) :
        /\ \A f \in 1..Len(RecordFields) : HasKey(results[k], RecordFields[f])
        /\ ~IsSuccess(results[k]) => Get(results[k], "word_count") = PyInt(0)

\* the positions of the slashes of u
Slashes(u) == {k \in 1..Len(u) : u[k] = "/"}

\* what lies between the second slash of u and the next one (or the end)
AfterSecondSlash(u) ==
    LET p1 == MinOf(Slashes(u))
        p2 == MinOf(Slashes(u) \ {p1})
        rest == {k \in Slashes(u) : k > p2}
    IN  SubSeq(u, p2 + 1, IF rest = {} THEN Len(u) ELSE MinOf(rest) - 1)

DomainRule(r) ==
    Get(r, "domain") =
        PyStr(IF Cardinality(Slashes(Get(r, "url").v)) >= 2
              THEN AfterSecondSlash(Get(r, "url").v)
              ELSE S_unknown)

S_wwwExampleCom == <<"w","w","w",".","e","x","a","m","p","l","e",".","c","o","m">>
S_exampleCom == <<"e","x","a","m","p","l","e",".","c","o","m">>

\* C6 as stated: the domain of a success record is segment 2 of the url split
\* on "/" when there are 3 segments or more, else "unknown";
\* "https://www.example.com/path" gives "www.example.com" and
\* "https://example.com" gives "unknown".
C6_Original ==
    \A k \in 1..Len(results) :
        IsSuccess(results[k]) =>
            /\ DomainRule(results[k])
            /\ urls[k] = U_ExamplePath => Get(results[k], "domain") = PyStr(S_wwwExampleCom)
            /\ urls[k] = U_Example => Get(results[k], "domain") = PyStr(S_unknown)

\* C6 amended: the same rule, and "https://example.com", whose split has the
\* 3 segments "https:", "" and "example.com", gives "example.com".
C6_Amended ==
    \A k \in 1..Len(results) :
        IsSuccess(results[k]) =>
            /\ DomainRule(results[k])
            /\ urls[k] = U_ExamplePath => Get(results[k], "domain") = PyStr(S_wwwExampleCom)
            /\ urls[k] = U_Example => Get(results[k], "domain") = PyStr(S_exampleCom)

\* C6 witness: "https://example.com" was extracted.
C6_Witness ==
    /\ pc = "returned"
    /\ urls[1] = U_Example
    /\ IsSuccess(results[1])

\* C7: for every list of N >= 1 records of the pipeline the sheet has N data
\* rows in input order and the seven columns in the fixed order, whichever
\* record comes first.
C7_FixedColumns ==
    (pc = "returned" /\ data.is_list) =>
        /\ excel.header = RecordFields
        /\ Len(excel.rows) = Len(data.value)
        /\ \A r \in 1..Len(excel.rows) : \A c \in 1..Len(excel.header) :
              HasKey(data.value[r], excel.header[c])
              /\ excel.rows[r][c] = Get(data.value[r], excel.header[c])

\* the greatest rendered length in column c, and the length of its header
GreatestLength(c) ==
    LET n == Len(excel.rows)
    IN  CHOOSE m \in {StrLen(excel.rows[r][c]) : r \in 1..n} :
            \A r \in 1..n : StrLen(excel.rows[r][c]) <= m

HeaderLength(c) == Len(excel.header[c])

\* C8 as stated: every column's width is min(max(L, H), 50), never above 50.
C8_Original ==
    pc = "returned" =>
        \A c \in 1..Len(excel.header) :
            /\ excel.widths[c] = Min(Max(GreatestLength(c), HeaderLength(c)), 50)
            /\ excel.widths[c] <= 50

\* C8 amended: every column's width is min(max(L, H) + 2, 50), never above 50.
C8_Amended ==
    pc = "returned" =>
        /\ Len(excel.widths) = Len(excel.header)
        /\ \A c \in 1..Len(excel.header) :
              /\ excel.widths[c] = Min(Max(GreatestLength(c), HeaderLength(c)) + 2, 50)
              /\ excel.widths[c] <= 50

\* C8 witness: a sheet with a column the cap cuts and a column it does not.
C8_Witness ==
    /\ pc = "returned"
    /\ \E c \in 1..Len(excel.header) :
          Max(GreatestLength(c), HeaderLength(c)) + 2 > 50 /\ excel.widths[c] = 50
    /\ \E c \in 1..Len(excel.header) : excel.widths[c] < 50

\* the first of the elements S in document order, 0 when there is none
FirstOf(S) == IF S = {} THEN 0 ELSE MinOf(S)

\* the cleaned text of the subtree of element n (n = 0: of the whole document)
CleanedTextOf(doc, n) == PyStr(clean_text(get_text(doc, decompose(doc), n, <<"\n">>)))

\* the region by the priority article, main, class content, class post;
\* tags is the set of tags the two class rules apply to
RegionByPriority(doc, tags) ==
    LET left == decompose(doc)
        a == FirstOf({n \in left : doc[n].tag = "article"})
        m == FirstOf({n \in left : doc[n].tag = "main"})
        c == FirstOf({n \in left : doc[n].tag \in tags /\ "content" \in doc[n].cls})
        p == FirstOf({n \in left : doc[n].tag \in tags /\ "post" \in doc[n].cls})
    IN  IF a # 0 THEN a ELSE IF m # 0 THEN m ELSE IF c # 0 THEN c ELSE p

AllTags == {"title", "h1", "article", "main", "div", "section", "p", "nav"}

\* C9 as stated: the text is that of the first article, else the first main,
\* else the first element of any tag with class content, else the first of
\* any tag with class post, else of the whole remaining document.
C9_Original ==
    (pc = "returned" /\ served[1].kind = "ok") =>
        /\ IsSuccess(results[1])
        /\ Get(results[1], "text") =
              CleanedTextOf(served[1].doc, RegionByPriority(served[1].doc, AllTags))

\* C9 amended: the two class rules select div elements only.
C9_Amended ==
    (pc = "returned" /\ served[1].kind = "ok") =>
        /\ IsSuccess(results[1])
        /\ Get(results[1], "text") =
              CleanedTextOf(served[1].doc, RegionByPriority(served[1].doc, {"div"}))

\* C9 witness: a document whose first element with class content is no div
\* and whose region is a later div with class post.
C9_Witness ==
    /\ pc = "returned"
    /\ served[1].kind = "ok"
    /\ LET doc == served[1].doc
           region == RegionByPriority(doc, {"div"})
       IN  /\ region # 0
           /\ doc[region].tag = "div"
           /\ "post" \in doc[region].cls
           /\ \E n \in decompose(doc) : n < region /\ "content" \in doc[n].cls
           /\ Get(results[1], "text") # CleanedTextOf(doc, 0)

\* C10: the title of a success record is the text of the title element, else
\* the text of the first h1, else "No title found"; it is always a string and
\* the h1 is used whenever the title element yields no text.
C10_TitleResolution ==
    (pc = "returned" /\ served[1].kind = "ok") =>
        LET doc == served[1].doc
            left == decompose(doc)
            ti == FirstOf({n \in left : doc[n].tag = "title"})
            h == FirstOf({n \in left : doc[n].tag = "h1"})
            hasText == ti # 0 /\ IsStr(string(doc, left, ti))
            title == Get(results[1], "title")
        IN  /\ IsStr(title)
            /\ hasText => title = string(doc, left, ti)
            /\ (~hasText /\ h # 0) => title = PyStr(get_text(doc, left, h, <<>>))
            /\ (~hasText /\ h = 0) => title = PyStr(S_NoTitle)

====
